---- MODULE Spec2Model ----
(***************************************************************************)
(* Model of the identity provisioning service of ai-identity-agent.       *)
(*                                                                         *)
(* The repository holds two entry points, main.py and Final_main.py; both  *)
(* expose POST /provision/user, /deprovision/user and /update/user.  Each  *)
(* handler is an `async def` without an await after the body was read, so  *)
(* on the event loop a handler runs to its end before the next one starts. *)
(* A handler is modelled statement by statement through a program counter. *)
(*                                                                         *)
(* The audit log is the file logs/audit.log fed by the root logger: every  *)
(* logging call of a handler (or of a function it calls) appends one       *)
(* record.                                                                 *)
(***************************************************************************)
EXTENDS Integers, Sequences, FiniteSets, TLC

\* Bounds of the model.
MaxRequests == 2

Apps == {"main", "Final_main"}
Modules == {"entra", "aws", "sailpoint", "opa_enforcer", "ai_recommender"}
Backends == {"entra", "aws", "sailpoint"}
Ops == {"provision", "deprovision", "update"}

\* Request bodies: the email of the profile, or a body without an email.
NoEmail == "<no email>"
Emails == {"a@corp.example", "b@corp.example"}

\* What the policy service can answer to requests.post(OPA_URL, ...).
OpaResponses ==
    {"conn_error", "not_json", "no_result", "allow", "deny_reason",
     "deny_noreason", "result_null", "hang"}

\* What the chat completion call can do once key and client are present.
AiResponses == {"ok", "transport_error", "malformed"}

VARIABLES
    app,        \* which entry point is served
    importOK,   \* per module: whether __import__ succeeds in this deployment
    apiKey,     \* OPENAI_API_KEY is set (main.py)
    openaiOK,   \* `import openai` succeeded (main.py)
    phase,      \* "loading", "serving" or "import_failed"
    mods,       \* per module: what the global name is bound to after loading
    reqs,       \* the requests received so far, in the order they were taken
    auditLog,   \* the lines of logs/audit.log
    calls       \* the collaborator functions that were actually entered

vars == <<app, importOK, apiKey, openaiOK, phase, mods, reqs, auditLog, calls>>

-----------------------------------------------------------------------------
(* Module loading *)

\* safe_import: main.py imports with fromlist=[''] and binds the submodule,
\* or a Mock on ImportError; Final_main.py imports without fromlist, which
\* yields the top-level package, and binds nothing on ImportError.
safe_import(a, ok) ==
    IF a = "main"
    THEN IF ok THEN "real" ELSE "mock"
    ELSE IF ok THEN "package" ELSE "unbound"

\* The names each entry point imports through safe_import.
Imported(a) ==
    IF a = "main" THEN Modules \ {"ai_recommender"} ELSE Modules

\* The functions the modules under provision/ and logic/ define.
RealHas(m, fn) ==
    \/ m = "entra" /\ fn \in {"get_graph_token", "create_entra_user"}
    \/ m = "aws" /\ fn = "assign_aws_permission_set"
    \/ m = "sailpoint" /\ fn = "push_to_sailpoint"
    \/ m = "opa_enforcer" /\ fn = "enforce_policy"
    \/ m = "ai_recommender" /\ fn = "get_access_recommendation"

\* The attributes patch_mock_returns touches, in order.
PatchedFns ==
    {<<"opa_enforcer", "enforce_policy">>,
     <<"entra", "create_entra_user">>, <<"entra", "delete_entra_user">>,
     <<"entra", "update_entra_user">>,
     <<"aws", "create_user">>, <<"aws", "delete_user">>, <<"aws", "update_user">>,
     <<"sailpoint", "push_to_sailpoint">>, <<"sailpoint", "delete_user">>,
     <<"sailpoint", "update_user_attributes">>}

\* patch_mock_returns raises AttributeError when a name is bound to a real
\* module that lacks one of the patched functions.
patch_mock_returns_raises(ms) ==
    \E p \in PatchedFns : ms[p[1]] = "real" /\ ~RealHas(p[1], p[2])

\* The function a handler calls on a backend.
FnOf(b, op) ==
    CASE b = "entra" ->
            (CASE op = "provision" -> "create_entra_user"
               [] op = "deprovision" -> "delete_entra_user"
               [] op = "update" -> "update_entra_user")
      [] b = "aws" ->
            (CASE op = "provision" -> "create_user"
               [] op = "deprovision" -> "delete_user"
               [] op = "update" -> "update_user")
      [] b = "sailpoint" ->
            (CASE op = "provision" -> "push_to_sailpoint"
               [] op = "deprovision" -> "delete_user"
               [] op = "update" -> "update_user_attributes")

-----------------------------------------------------------------------------
(* Values *)

NoOutcome == [raised |-> FALSE, called |-> FALSE, status |-> "", detail |-> ""]
Raise(exc) == [raised |-> TRUE, called |-> FALSE, status |-> exc, detail |-> ""]
RaiseIn(exc) == [raised |-> TRUE, called |-> TRUE, status |-> exc, detail |-> ""]
Return(s, d) == [raised |-> FALSE, called |-> TRUE, status |-> s, detail |-> d]

\* The return values patch_mock_returns installs.
MockReturn(fn) ==
    CASE fn = "create_entra_user" -> Return("success", "User created")
      [] fn = "push_to_sailpoint" -> Return("User pushed", "")
      [] OTHER -> Return("success", "")

\* A real backend function called with the request's user dict.
\* create_entra_user has no try/except and indexes user["name"], a key
\* the profile never has; push_to_sailpoint catches the same KeyError.
RealCall(m, fn) ==
    CASE fn = "create_entra_user" -> {RaiseIn("KeyError")}
      [] fn = "push_to_sailpoint" -> {Return("500", "error")}
      [] OTHER -> {Raise("AttributeError")}

\* Evaluation of `X.fn(user) if X else "module missing"` for the binding of X.
\* No binding is falsy, so the else branch is never taken.
CallBackend(kind, m, fn) ==
    CASE kind = "unbound" -> {Raise("NameError")}
      [] kind = "package" -> {Raise("AttributeError")}
      [] kind = "mock" -> {MockReturn(fn)}
      [] kind = "real" ->
            IF RealHas(m, fn) THEN RealCall(m, fn) ELSE {Raise("AttributeError")}

\* policy_check values.
NoPolicy == [shape |-> "none", hasAllow |-> FALSE, allow |-> FALSE, reason |-> ""]
PolicyDict(ha, a, r) == [shape |-> "dict", hasAllow |-> ha, allow |-> a, reason |-> r]
PolicyNonDict == [shape |-> "nondict", hasAllow |-> FALSE, allow |-> FALSE, reason |-> ""]

\* enforce_policy of logic/opa_enforcer.py for one answer of the service.
enforce_policy(resp) ==
    CASE resp \in {"conn_error", "not_json"} ->
            PolicyDict(TRUE, FALSE, "OPA policy check failed")
      [] resp = "no_result" -> PolicyDict(FALSE, FALSE, "")
      [] resp = "allow" -> PolicyDict(TRUE, TRUE, "")
      [] resp = "deny_reason" -> PolicyDict(TRUE, FALSE, "region blocked")
      [] resp = "deny_noreason" -> PolicyDict(TRUE, FALSE, "")
      [] resp = "result_null" -> PolicyNonDict

\* Variant of the lookup with the default True instead of False.
AllowedDefaultTrue(p) == p.shape = "dict" /\ (~p.hasAllow \/ p.allow)

\* policy_check.get("allow", False)
Allowed(p) == p.shape = "dict" /\ p.hasAllow /\ p.allow

\* policy_check.get("reason", "Policy Violation")
ReasonOf(p) == IF p.reason = "" THEN "Policy Violation" ELSE p.reason

\* Variant of the denial response that also returns the recommendation.
DeniedResponseWithAdvice(p) ==
    [kind |-> "denied", reason |-> ReasonOf(p),
     keys |-> {"status", "reason", "ai_access"}]

\* return {"status": "denied", "reason": reason}
DeniedResponse(p) ==
    [kind |-> "denied", reason |-> ReasonOf(p), keys |-> {"status", "reason"}]

NoResp == [kind |-> "none", reason |-> "", keys |-> {}]

NewRequest(op, email, pc) ==
    [op |-> op, email |-> email, pc |-> pc,
     aiIn |-> "none", ai |-> "none", opa |-> "none", policy |-> NoPolicy,
     entra |-> NoOutcome, aws |-> NoOutcome, sailpoint |-> NoOutcome,
     resp |-> NoResp, exc |-> "", nlogged |-> 0]

Line(i, kind, reason) == [req |-> i, kind |-> kind, reason |-> reason]

-----------------------------------------------------------------------------
(* Initial state and loading *)

Init ==
    /\ app \in Apps
    /\ importOK \in [Modules -> BOOLEAN]
    /\ apiKey \in BOOLEAN
    /\ openaiOK \in BOOLEAN
    \* main.py does not import logic.ai_recommender; Final_main.py reads
    \* neither OPENAI_API_KEY nor the openai module itself.
    /\ app = "main" => ~importOK["ai_recommender"]
    /\ app = "Final_main" => ~apiKey /\ ~openaiOK
    /\ phase = "loading"
    /\ mods = [m \in Modules |-> "unbound"]
    /\ reqs = <<>>
    /\ auditLog = <<>>
    /\ calls = <<>>

\* Module level code up to the creation of the app.
Startup ==
    /\ phase = "loading"
    /\ LET ms == [m \in Modules |->
                    IF m \in Imported(app) THEN safe_import(app, importOK[m])
                    ELSE "unbound"]
       IN /\ mods' = ms
          /\ phase' = IF app = "main" /\ patch_mock_returns_raises(ms)
                      THEN "import_failed" ELSE "serving"
    /\ UNCHANGED <<app, importOK, apiKey, openaiOK, reqs, auditLog, calls>>

-----------------------------------------------------------------------------
(* Handlers *)

Terminal == {"done", "raised", "rejected"}

\* Variant in which handlers run on worker threads and overlap.
LoopNeverBusy == TRUE

\* The event loop runs one handler at a time: the handlers are coroutines
\* that never await once they have the request body.
LoopIdle == \A j \in 1..Len(reqs) : reqs[j].pc \in Terminal

\* Variant of the provision handler that goes straight to the backends.
FirstPcNoGate(op) == "entra"

FirstPc(op) == IF op = "provision" THEN "received" ELSE "entra"

\* A request arrives.  main.py declares `email: str` on UserModel, so a
\* body without email is rejected before the handler runs; Final_main.py
\* takes any JSON object.
Accept(op, email) ==
    /\ phase = "serving"
    /\ Len(reqs) < MaxRequests
    /\ LoopIdle
    /\ reqs' = Append(reqs,
                 IF app = "main" /\ email = NoEmail
                 THEN [NewRequest(op, email, "rejected") EXCEPT
                          !.resp = [kind |-> "rejected422", reason |-> "", keys |-> {}]]
                 ELSE NewRequest(op, email, FirstPc(op)))
    /\ UNCHANGED <<app, importOK, apiKey, openaiOK, phase, mods, auditLog, calls>>

Log(i, kind, reason) == auditLog' = Append(auditLog, Line(i, kind, reason))

Fail500 == [kind |-> "error500", reason |-> "", keys |-> {}]

\* logging.info("Received provisioning request for: ...")
LogReceived(i) ==
    /\ reqs[i].pc = "received"
    /\ Log(i, "received", "")
    /\ reqs' = [reqs EXCEPT ![i].pc = "advise", ![i].nlogged = @ + 1]
    /\ UNCHANGED <<app, importOK, apiKey, openaiOK, phase, mods, calls>>

\* Variant without the try/except around the chat completion call.
get_ai_access_recommendation_uncaught(key, client, o) ==
    IF ~key THEN [raised |-> FALSE, value |-> "error", logged |-> FALSE]
    ELSE IF ~client THEN [raised |-> FALSE, value |-> "error", logged |-> FALSE]
    ELSE IF o = "ok" THEN [raised |-> FALSE, value |-> "entitlements", logged |-> FALSE]
    ELSE [raised |-> TRUE, value |-> "none", logged |-> FALSE]

\* get_ai_access_recommendation of main.py, for the answer o of the chat
\* completion call: every failure comes back as an {"error": ...} value.
get_ai_access_recommendation(key, client, o) ==
    IF ~key THEN [raised |-> FALSE, value |-> "error", logged |-> FALSE]
    ELSE IF ~client THEN [raised |-> FALSE, value |-> "error", logged |-> FALSE]
    ELSE IF o = "ok" THEN [raised |-> FALSE, value |-> "entitlements", logged |-> FALSE]
    ELSE [raised |-> FALSE, value |-> "error", logged |-> TRUE]

\* What the advisory call of a request runs into.
AdvisoryCondition(key, client, o) ==
    IF ~key THEN "no_key" ELSE IF ~client THEN "no_module" ELSE o

\* ai_access = get_ai_access_recommendation(user.dict())
AdviseMain(i) ==
    /\ app = "main"
    /\ reqs[i].pc = "advise"
    /\ calls' = Append(calls, [req |-> i, target |-> "advisory",
                               fn |-> "get_ai_access_recommendation"])
    /\ \E o \in AiResponses :
         LET r == get_ai_access_recommendation(apiKey, openaiOK, o)
             q == [reqs[i] EXCEPT !.aiIn = AdvisoryCondition(apiKey, openaiOK, o),
                                  !.nlogged = IF r.logged THEN @ + 1 ELSE @]
         IN /\ auditLog' = IF r.logged
                            THEN Append(auditLog, Line(i, "ai_error", o))
                            ELSE auditLog
            /\ reqs' = [reqs EXCEPT ![i] =
                          IF r.raised
                          THEN [q EXCEPT !.pc = "raised", !.resp = Fail500,
                                         !.exc = "advisory"]
                          ELSE [q EXCEPT !.pc = "advise_log", !.ai = r.value]]
    /\ UNCHANGED <<app, importOK, apiKey, openaiOK, phase, mods>>

\* ai_access = ai_recommender.get_access_recommendation(user)
\*             if ai_recommender else {}
\* of Final_main.py: the name is unbound or bound to the package `logic`,
\* so the expression raises before the function is entered.
AdviseFinal(i) ==
    /\ app = "Final_main"
    /\ reqs[i].pc = "advise"
    /\ mods["ai_recommender"] \in {"unbound", "package"}
    /\ reqs' = [reqs EXCEPT ![i].pc = "raised", ![i].resp = Fail500,
                  ![i].exc = IF mods["ai_recommender"] = "unbound"
                             THEN "NameError" ELSE "AttributeError"]
    /\ UNCHANGED <<app, importOK, apiKey, openaiOK, phase, mods, auditLog, calls>>

\* logging.info("AI access recommendation: ...")
AdviseLog(i) ==
    /\ reqs[i].pc = "advise_log"
    /\ Log(i, "ai_recommendation", "")
    /\ reqs' = [reqs EXCEPT ![i].pc = "policy", ![i].nlogged = @ + 1]
    /\ UNCHANGED <<app, importOK, apiKey, openaiOK, phase, mods, calls>>

\* policy_check = opa_enforcer.enforce_policy(user.dict()) if opa_enforcer
\*                else {"allow": True}
Policy(i) ==
    /\ reqs[i].pc = "policy"
    /\ LET kind == mods["opa_enforcer"]
           entered == Append(calls, [req |-> i, target |-> "opa_enforcer",
                                     fn |-> "enforce_policy"])
       IN CASE kind = "mock" ->
                 /\ reqs' = [reqs EXCEPT ![i].pc = "gate",
                               ![i].policy = PolicyDict(TRUE, TRUE, "")]
                 /\ calls' = entered
                 /\ UNCHANGED auditLog
            [] kind \in {"unbound", "package"} ->
                 /\ reqs' = [reqs EXCEPT ![i].pc = "raised", ![i].resp = Fail500,
                               ![i].exc = IF kind = "unbound" THEN "NameError"
                                          ELSE "AttributeError"]
                 /\ UNCHANGED <<calls, auditLog>>
            [] kind = "real" ->
                 \E resp \in OpaResponses :
                   /\ calls' = entered
                   /\ IF resp = "hang"
                      \* requests.post has no timeout
                      THEN /\ reqs' = [reqs EXCEPT ![i].pc = "hung", ![i].opa = resp]
                           /\ UNCHANGED auditLog
                      ELSE IF resp \in {"conn_error", "not_json"}
                      THEN /\ Log(i, "opa_error", "")
                           /\ reqs' = [reqs EXCEPT ![i].pc = "gate",
                                         ![i].opa = resp,
                                         ![i].policy = enforce_policy(resp),
                                         ![i].nlogged = @ + 1]
                      ELSE /\ reqs' = [reqs EXCEPT ![i].pc = "gate",
                                         ![i].opa = resp,
                                         ![i].policy = enforce_policy(resp)]
                           /\ UNCHANGED auditLog
    /\ UNCHANGED <<app, importOK, apiKey, openaiOK, phase, mods>>

\* if not policy_check.get("allow", False): log, return denied
Gate(i) ==
    /\ reqs[i].pc = "gate"
    /\ LET p == reqs[i].policy
       IN IF p.shape # "dict"
          THEN /\ reqs' = [reqs EXCEPT ![i].pc = "raised", ![i].resp = Fail500,
                             ![i].exc = "AttributeError"]
               /\ UNCHANGED auditLog
          ELSE IF ~Allowed(p)
          THEN /\ Log(i, "denied", ReasonOf(p))
               /\ reqs' = [reqs EXCEPT ![i].pc = "done",
                             ![i].nlogged = @ + 1,
                             ![i].resp = DeniedResponse(p)]
          ELSE /\ reqs' = [reqs EXCEPT ![i].pc = "entra"]
               /\ UNCHANGED auditLog
    /\ UNCHANGED <<app, importOK, apiKey, openaiOK, phase, mods, calls>>

NextPc(b) ==
    CASE b = "entra" -> "aws"
      [] b = "aws" -> "sailpoint"
      [] b = "sailpoint" -> "complete"

\* The three backend statements of a handler, one backend each.
Backend(i, b) ==
    /\ reqs[i].pc = b
    /\ LET fn == FnOf(b, reqs[i].op)
       IN \E o \in CallBackend(mods[b], b, fn) :
            /\ calls' = IF o.called
                        THEN Append(calls, [req |-> i, target |-> b, fn |-> fn])
                        ELSE calls
            /\ reqs' = IF o.raised
                       THEN [reqs EXCEPT ![i].pc = "raised", ![i][b] = o,
                                         ![i].resp = Fail500,
                                         ![i].exc = o.status]
                       ELSE [reqs EXCEPT ![i].pc = NextPc(b), ![i][b] = o]
    /\ UNCHANGED <<app, importOK, apiKey, openaiOK, phase, mods, auditLog>>

ResultKeys(op) ==
    IF op = "provision"
    THEN {"entra_status", "entra_result", "aws_status", "ai_access",
          "policy_check", "sailpoint_result"}
    ELSE {"entra_status", "aws_status", "sailpoint_status"}

CompleteKind(op) ==
    CASE op = "provision" -> "complete"
      [] op = "deprovision" -> "deprovisioned"
      [] op = "update" -> "updated"

\* The closing logging.info of a handler and its return.
Complete(i) ==
    /\ reqs[i].pc = "complete"
    /\ Log(i, CompleteKind(reqs[i].op), "")
    /\ reqs' = [reqs EXCEPT ![i].pc = "done", ![i].nlogged = @ + 1,
                  ![i].resp = [kind |-> "result", reason |-> "",
                               keys |-> ResultKeys(reqs[i].op)]]
    /\ UNCHANGED <<app, importOK, apiKey, openaiOK, phase, mods, calls>>

Next ==
    \/ Startup
    \/ \E op \in Ops, e \in Emails \cup {NoEmail} : Accept(op, e)
    \/ \E i \in 1..Len(reqs) : LogReceived(i)
    \/ \E i \in 1..Len(reqs) : AdviseMain(i)
    \/ \E i \in 1..Len(reqs) : AdviseFinal(i)
    \/ \E i \in 1..Len(reqs) : AdviseLog(i)
    \/ \E i \in 1..Len(reqs) : Policy(i)
    \/ \E i \in 1..Len(reqs) : Gate(i)
    \/ \E i \in 1..Len(reqs), b \in Backends : Backend(i, b)
    \/ \E i \in 1..Len(reqs) : Complete(i)

Spec == Init /\ [][Next]_vars

\* The server keeps running handlers that can take a step.
FairSpec == Spec /\ WF_vars(Next)

TypeOK ==
    /\ app \in Apps
    /\ phase \in {"loading", "serving", "import_failed"}
    /\ Len(reqs) <= MaxRequests

-----------------------------------------------------------------------------
(* Properties *)

ReqIds == 1..Len(reqs)
LinesOf(i) == {k \in 1..Len(auditLog) : auditLog[k].req = i}
CallsOf(i, targets) ==
    {k \in 1..Len(calls) : calls[k].req = i /\ calls[k].target \in targets}
IsCreate(i) == reqs[i].op = "provision"
DecisionIsAllow(p) == p.shape = "dict" /\ p.hasAllow /\ p.allow
DecisionIsDeny(p) == p.shape = "dict" /\ ~(p.hasAllow /\ p.allow)
Denied(i) == IsCreate(i) /\ DecisionIsDeny(reqs[i].policy)
ExpectedReason(p) == IF p.reason = "" THEN "Policy Violation" ELSE p.reason
Finished(i) == reqs[i].pc = "done"

PolicyFailures == {"conn_error", "not_json", "result_null"}

C2_PolicyFailureIsDenial ==
    \A i \in ReqIds : (IsCreate(i) /\ reqs[i].opa \in PolicyFailures) =>
        /\ ~DecisionIsAllow(reqs[i].policy)
        /\ CallsOf(i, Backends) = {}
        /\ reqs[i].pc # "raised"
        /\ Finished(i) => reqs[i].resp.kind = "denied"

\* C3: when the call of one backend raises, the exception is not re-raised
\* to the caller, and the request finishes with a structured result in
\* which the other two backends have their outcomes.
C3_BackendFailureIsolated ==
    \A i \in ReqIds : \A b \in Backends : reqs[i][b].raised =>
        /\ reqs[i].pc # "raised"
        /\ reqs[i].resp.kind # "error500"
        /\ Finished(i) =>
             /\ reqs[i].resp.kind = "result"
             /\ \A c \in Backends \ {b} :
                  reqs[i][c] # NoOutcome /\ ~reqs[i][c].raised

\* C4: every accepted request that has ended wrote exactly one audit
\* record, every rejected request wrote none, and when no handler is running
\* the log holds as many records as requests were accepted.
C4_OneRecordPerRequest ==
    /\ \A i \in ReqIds :
         /\ reqs[i].pc = "rejected" => LinesOf(i) = {}
         /\ reqs[i].pc \in {"done", "raised"} => Cardinality(LinesOf(i)) = 1
    /\ LoopIdle =>
         Len(auditLog) = Cardinality({i \in ReqIds : reqs[i].pc # "rejected"})

\* C5: for a Create request, a failure of the advisory call (no API key, no
\* client module, transport error, malformed answer) becomes an error value
\* and never an exception; when policy allows the request, all three
\* backends are still called and report the statuses they report for a
\* request whose advisory call succeeded.
AdvisoryFailures == {"no_key", "no_module", "transport_error", "malformed"}

AllowedDone(i) ==
    IsCreate(i) /\ Finished(i) /\ DecisionIsAllow(reqs[i].policy)

C6_MissingModuleUnavailable ==
    \A i \in ReqIds : \A b \in Backends :
        (phase = "serving" /\ ~importOK[b] /\ reqs[i][b] # NoOutcome) =>
            /\ ~reqs[i][b].raised
            /\ \/ reqs[i][b].status \in {"unavailable", "module missing"}
               \/ reqs[i][b].detail = "module missing"

\* C7: an accepted request eventually returns a result to the caller with
\* an audit record written for it, even when the policy service never
\* answers the call the request makes to it.
PolicyCallUnanswered(i) == i <= Len(reqs) /\ reqs[i].opa = "hang"

Completed(i) ==
    /\ i <= Len(reqs)
    /\ reqs[i].pc = "done"
    /\ reqs[i].resp.kind \in {"result", "denied"}
    /\ LinesOf(i) # {}

C7_AcceptedEventuallyAudited ==
    \A i \in 1..MaxRequests : PolicyCallUnanswered(i) ~> Completed(i)

C9_PolicyBeforeBackends ==
    /\ \A i \in ReqIds :
         (IsCreate(i) /\ reqs[i].pc \in {"entra", "aws", "sailpoint", "complete"})
             => DecisionIsAllow(reqs[i].policy)
    /\ \A k \in 1..Len(calls) :
         (calls[k].target \in Backends /\ IsCreate(calls[k].req)) =>
             /\ DecisionIsAllow(reqs[calls[k].req].policy)
             /\ \E l \in 1..(k - 1) :
                  calls[l].req = calls[k].req /\ calls[l].target = "opa_enforcer"

C9_Witness ==
    \E k \in 1..Len(calls) :
        /\ calls[k].target = "sailpoint"
        /\ IsCreate(calls[k].req)
        /\ reqs[calls[k].req].opa = "allow"

\* C10: no audit record is lost, and the records of two requests about the
\* same email appear in the log in the order the requests were accepted.
C10_AuditOrderPerSubject ==
    /\ \A i \in ReqIds : Cardinality(LinesOf(i)) = reqs[i].nlogged
    /\ \A k, l \in 1..Len(auditLog) :
         (k < l /\ reqs[auditLog[k].req].email = reqs[auditLog[l].req].email)
             => auditLog[k].req <= auditLog[l].req

C10_Witness ==
    \E i, j \in ReqIds :
        /\ i < j
        /\ reqs[i].email = reqs[j].email
        /\ Cardinality(LinesOf(i)) >= 2
        /\ LinesOf(j) # {}

====
